---- MODULE Spec2Model ----
(***************************************************************************)
(* GroundTruthStudy (spikecomparison/groundtruthstudy.py): a folder-backed *)
(* study of recordings ("cases"), sorters ("engines") and their outputs.   *)
(* Storage (the study folder) and the in-memory view of one study object   *)
(* are the state; each public method is one action.                        *)
(***************************************************************************)
EXTENDS Integers, Sequences, FiniteSets, TLC

\* ---------------------------------------------------------------- bounds
MaxVersion == 2        \* times the output of one pair may be (re)written
MaxFails == 1          \* engine invocations that may fail in one run_sorters call

\* ----------------------------------------------------------------- names
NoName == "<None>"                            \* rec_name=None
RecOrder == <<"recA", "recB">>                \* recording names, alphabetical
EngineOrder == <<"sorterA", "sorterB">>       \* sorter names, alphabetical
CaseNames == {RecOrder[i] : i \in 1 .. Len(RecOrder)}
Engines == {EngineOrder[i] : i \in 1 .. Len(EngineOrder)}
AnyName == CaseNames \cup {NoName, "recX"}    \* names a caller may pass
AllPairs == CaseNames \X Engines
Modes == {"keep", "overwrite"}
TableNames == <<"run_times", "perf_by_units", "count_units">>
SorterArgs == Engines \cup {"sorterX"}        \* sorter names a caller may pass
SnrValues == {1, 2}                           \* what compute_snrs may give for a unit

VARIABLES
    recs,            \* storage: <study>/ground_truth/<rec_name>.npz
    sortings,        \* storage: output of (rec, sorter); 0 = none, else its version
    run_times,       \* storage: run-time record of (rec, sorter); 0 = none, else its version
    tables_folder,   \* storage: <study>/tables
    metrics_folder,  \* storage: <study>/metrics
    npz_sortings,    \* storage: the pairs whose output has an exported copy
    rec_names,       \* self.rec_names
    computed_names,  \* self.computed_names
    sorter_names,    \* self.sorter_names
    is_scanned,      \* self._is_scanned
    comparisons,     \* self.comparisons
    exhaustive_gt,   \* self.exhaustive_gt
    called_gt,       \* exhaustive_gt argument of the most recent run_comparisons call
    last,            \* the last operation called and its arguments
    ret,             \* what it returned or raised
    engine_calls     \* the engine invocations it made

storage == <<recs, sortings, run_times, tables_folder, metrics_folder, npz_sortings>>
lists == <<rec_names, computed_names, sorter_names, is_scanned>>
memory == <<lists, comparisons, exhaustive_gt>>
history == <<called_gt>>
vars == <<storage, memory, history, last, ret, engine_calls>>

\* ------------------------------------------------------------ value helpers
NoneVal == [kind |-> "None"]
Raised(e) == [kind |-> "error", err |-> e]
Value(v) == [kind |-> "value", value |-> v]
NoCalls == [invoked |-> {}, failed |-> {}, snr |-> {}]
IdleOp == [op |-> "idle"]

Range(s) == {s[i] : i \in 1 .. Len(s)}
IndexOf(s, x) == CHOOSE i \in 1 .. Len(s) : s[i] = x /\ \A j \in 1 .. (i - 1) : s[j] # x
NoDuplicates(s) == \A i, j \in 1 .. Len(s) : s[i] = s[j] => i = j

\* every (rec, sorter) pair, rec-major, in name order
PairOrder ==
    [k \in 1 .. (Len(RecOrder) * Len(EngineOrder)) |->
        <<RecOrder[((k - 1) \div Len(EngineOrder)) + 1],
          EngineOrder[((k - 1) % Len(EngineOrder)) + 1]>>]

InPairs(p, S) == p \in S
InNames(n, S) == n \in S

\* ------------------------------------------------- studytools (folder layout)
\* get_rec_names(study_folder): the cases of the ground_truth folder
get_rec_names == SelectSeq(RecOrder, LAMBDA r : InNames(r, recs))

\* iter_computed_names(study_folder): the (rec_name, sorter_name) pairs with output
iter_computed_names == SelectSeq(PairOrder, LAMBDA p : sortings[p] # 0)

\* iter_computed_sorting(study_folder): the same pairs, each with its output
iter_computed_sorting == iter_computed_names

\* ground-truth unit ids of a case (fixed content of ground_truth/<rec>.npz)
gt_unit_ids(rec) == IF rec = "recA" THEN <<1>> ELSE <<1, 2>>

\* mode of run_study_sorters when the caller passes none
DefaultMode == "keep"

\* run_study_sorters(study_folder, sorter_list, mode): known cases x requested
\* engines; "keep" skips a pair that has output, "overwrite" re-runs it; a
\* failing engine leaves its pair without output and is reported per pair.
run_study_sorters(sorter_list, mode, fails) ==
    LET cross == recs \X sorter_list
        todo == {p \in cross : mode = "overwrite" \/ sortings[p] = 0}
        bad == todo \cap fails
        written(old) == [p \in AllPairs |->
                            IF p \in bad THEN 0
                            ELSE IF p \in todo THEN old[p] + 1
                            ELSE old[p]]
    IN [sortings |-> written(sortings),
        run_times |-> written(run_times),
        invoked |-> todo,
        report |-> bad]

\* collect_run_times(study_folder): one row per pair with its recorded run time
collect_run_times ==
    [i \in 1 .. Len(iter_computed_names) |->
        [key |-> iter_computed_names[i], run_time |-> run_times[iter_computed_names[i]]]]

\* -------------------------------------------------------- GroundTruthStudy
\* np.unique(names).tolist(): sorted, de-duplicated
np_unique(names) == SelectSeq(EngineOrder, LAMBDA e : InNames(e, Range(names)))

\* scan_folder that extends self.computed_names instead of replacing it
ScanResult_append(old) ==
    [rec_names |-> get_rec_names,
     computed_names |-> old \o iter_computed_names,
     sorter_names |-> np_unique([i \in 1 .. Len(iter_computed_names) |-> iter_computed_names[i][2]])]

\* scan_folder (lines 41-46): the three lists rebuilt from storage; `old` is
\* self.computed_names before the call
ScanResult(old) ==
    [rec_names |-> get_rec_names,
     computed_names |-> iter_computed_names,
     sorter_names |-> np_unique([i \in 1 .. Len(iter_computed_names) |-> iter_computed_names[i][2]])]

\* _check_rec_name without the "several recordings and no name" test
check_rec_name_nousage(names, rec_name) ==
    IF Len(names) = 1
        THEN Value(names[1])
    ELSE IF rec_name \in Range(names)
        THEN Value(names[IndexOf(names, rec_name)])
    ELSE Raised("lookup")

\* _check_rec_name (lines 61-67) on the scanned list `names`
check_rec_name(names, rec_name) ==
    IF Len(names) > 1 /\ rec_name = NoName
        THEN Raised("usage")
    ELSE IF Len(names) = 1
        THEN Value(names[1])
    ELSE IF rec_name \in Range(names)
        THEN Value(names[IndexOf(names, rec_name)])
    ELSE Raised("lookup")

\* run_sorters that asks the callee to overwrite
run_sorters_call_overwrite(sorter_list, mode, fails) ==
    run_study_sorters(sorter_list, "overwrite", fails)

\* run_sorters (lines 53-56): the call it makes; `mode` is not among the arguments
run_sorters_call(sorter_list, mode, fails) ==
    run_study_sorters(sorter_list, DefaultMode, fails)

\* run_sorters (lines 53-56): what it hands back from the callee's report
run_sorters_return(report) == NoneVal

\* run_comparisons loop (lines 95-98): index of the first pair whose ground-truth
\* lookup or scoring fails; Len + 1 when none does
FirstFailure(names, todo, scoreFailAt) ==
    LET bad == {i \in 1 .. Len(todo) :
                    i = scoreFailAt \/ check_rec_name(names, todo[i][1]).kind = "error"}
    IN IF bad = {} THEN Len(todo) + 1
       ELSE CHOOSE i \in bad : \A j \in bad : i <= j

\* an entry of an earlier call, were it to survive
Aged(entry) == [flag |-> entry.flag, fresh |-> FALSE]

\* run_comparisons without the reset of line 94: earlier entries survive
ComparisonsAfter_merge(old, todo, upto, flag) ==
    LET new == {todo[i] : i \in 1 .. upto}
        kept == (DOMAIN old.items) \ new
    IN [none |-> FALSE,
        items |-> [p \in new \cup kept |->
                      IF p \in new THEN [flag |-> flag, fresh |-> TRUE] ELSE Aged(old.items[p])]]

\* run_comparisons (lines 94-98): the map after scoring the first `upto` pairs
ComparisonsAfter(old, todo, upto, flag) ==
    [none |-> FALSE,
     items |-> [p \in {todo[i] : i \in 1 .. upto} |-> [flag |-> flag, fresh |-> TRUE]]]

\* run_comparisons that records the flag only while none is recorded
ExhaustiveAfter_once(old, done, exhaustive) ==
    IF done /\ old = "None" THEN (IF exhaustive THEN "True" ELSE "False") ELSE old

\* run_comparisons (line 99): self.exhaustive_gt once the loop has ended
ExhaustiveAfter(old, done, exhaustive) ==
    IF done THEN (IF exhaustive THEN "True" ELSE "False") ELSE old

\* aggregate_run_times (lines 101-102)
run_times_table == Value(collect_run_times)

\* comp.get_performance(method='by_unit') with lines 112-114: one row per ground-truth unit
PerfRows(p) ==
    [u \in 1 .. Len(gt_unit_ids(p[1])) |-> [key |-> <<p[1], p[2], gt_unit_ids(p[1])[u]>>]]

\* a concatenation that keeps only the table of the last pair
Concat_last(todo, i) == PerfRows(todo[Len(todo)])

RECURSIVE Concat(_, _)
Concat(todo, i) ==
    IF i > Len(todo) THEN <<>> ELSE PerfRows(todo[i]) \o Concat(todo, i + 1)

\* aggregate_performance_by_units without the assertion of line 105
perf_by_units_table_noassert(comps, todo) ==
    IF \E i \in 1 .. Len(todo) : todo[i] \notin DOMAIN comps.items THEN Raised("KeyError")
    ELSE IF Len(todo) = 0 THEN Raised("ValueError")
    ELSE Value(Concat(todo, 1))

\* aggregate_performance_by_units (lines 104-120)
perf_by_units_table(comps, todo) ==
    IF comps.none THEN Raised("run_comparisons first")
    ELSE IF \E i \in 1 .. Len(todo) : todo[i] \notin DOMAIN comps.items THEN Raised("KeyError")
    ELSE IF Len(todo) = 0 THEN Raised("ValueError")
    ELSE Value(Concat(todo, 1))

BaseColumns == <<"num_gt", "num_sorter", "num_well_detected", "num_redundant", "num_overmerged">>
ExhaustiveColumns == <<"num_false_positive", "num_bad">>

\* aggregate_count_units (lines 127-132): the columns of the table
count_columns(exh) ==
    IF exh = "True" THEN BaseColumns \o ExhaustiveColumns ELSE BaseColumns

\* aggregate_count_units that fills only the rows of the index built at line 125
count_rows_index_only(index, todo, cols, exh) ==
    [i \in 1 .. Len(index) |->
        [key |-> index[i],
         cells |-> [c \in Range(cols) |-> IF index[i] \in Range(todo) THEN "value" ELSE "None"]]]

\* aggregate_count_units (lines 134-147): the rows after the loop over storage;
\* a .loc assignment to a key the index lacks appends a row for it
count_rows(index, todo, cols, exh) ==
    LET cell(p, c) ==
            IF p \in Range(todo) /\ (c \in Range(BaseColumns) \/ exh = "True")
            THEN "value" ELSE "None"
        row(p) == [key |-> p, cells |-> [c \in Range(cols) |-> cell(p, c)]]
        extra == SelectSeq(todo, LAMBDA p : ~InPairs(p, Range(index)))
    IN [i \in 1 .. Len(index) |-> row(index[i])] \o [i \in 1 .. Len(extra) |-> row(extra[i])]

\* aggregate_count_units (lines 122-149)
count_units_table(index, names, comps, exh, todo) ==
    IF comps.none THEN Raised("run_comparisons first")
    ELSE LET lookup == {i \in 1 .. Len(todo) : check_rec_name(names, todo[i][1]).kind = "error"}
             nokey == {i \in 1 .. Len(todo) : todo[i] \notin DOMAIN comps.items}
             first == CHOOSE i \in lookup \cup nokey : \A j \in lookup \cup nokey : i <= j
         IN IF lookup \cup nokey = {}
                THEN Value([columns |-> count_columns(exh),
                            rows |-> count_rows(index, todo, count_columns(exh), exh)])
            ELSE IF first \in lookup THEN Raised("lookup")
            ELSE Raised("KeyError")

\* aggregate_dataframes (lines 152-158): the three tables, or the first failure
dataframes(index, names, comps, exh, todo) ==
    LET perfs == perf_by_units_table(comps, todo)
        counts == count_units_table(index, names, comps, exh, todo)
    IN IF run_times_table.kind = "error" THEN run_times_table
       ELSE IF perfs.kind = "error" THEN perfs
       ELSE IF counts.kind = "error" THEN counts
       ELSE Value([run_times |-> run_times_table.value,
                   perf_by_units |-> perfs.value,
                   count_units |-> counts.value])

\* dataframes[name].to_csv(..., sep='\t') (line 166): the tab-delimited text of a table
to_csv(name, table) == [of |-> name, gen |-> "new", sep |-> "\t", lines |-> table]

tables_after_keep(folder, dfs, copy_into_folder) ==
    IF dfs.kind = "error" \/ ~copy_into_folder THEN folder
    ELSE [exists |-> TRUE,
          files |-> [n \in Range(TableNames) |->
                        IF n \in DOMAIN folder.files THEN folder.files[n]
                        ELSE to_csv(n, dfs.value[n])]]

tables_after_always(folder, dfs, copy_into_folder) ==
    IF dfs.kind = "error" THEN folder
    ELSE [exists |-> TRUE,
          files |-> [n \in Range(TableNames) |-> to_csv(n, dfs.value[n])]]

tables_after_eager(folder, dfs, copy_into_folder) ==
    IF ~copy_into_folder THEN folder
    ELSE IF dfs.kind = "error" THEN [exists |-> TRUE, files |-> folder.files]
    ELSE [exists |-> TRUE,
          files |-> [n \in Range(TableNames) |-> to_csv(n, dfs.value[n])]]

\* aggregate_dataframes (lines 160-166): the tables folder after the call
tables_after(folder, dfs, copy_into_folder) ==
    IF dfs.kind = "error" \/ ~copy_into_folder THEN folder
    ELSE [exists |-> TRUE,
          files |-> [n \in Range(TableNames) |-> to_csv(n, dfs.value[n])]]

\* get_ground_truth / get_recording (lines 69-77): the resolved case is loaded
load_case(names, rec_name, what) ==
    LET r == check_rec_name(names, rec_name)
    IN IF r.kind = "error" THEN r ELSE Value([of |-> r.value, what |-> what])

\* get_sorting (lines 79-87)
selected_sorting(names, snames, sort_name, rec_name) ==
    LET r == check_rec_name(names, rec_name)
        hits == {i \in 1 .. Len(iter_computed_sorting) :
                    iter_computed_sorting[i] = <<r.value, sort_name>>}
    IN IF r.kind = "error" THEN r
       ELSE IF sort_name \in Range(snames) /\ hits # {}
           THEN Value([of |-> <<r.value, sort_name>>,
                       version |-> sortings[<<r.value, sort_name>>]])
       ELSE NoneVal

\* copy_sortings_to_npz(study_folder): every output on storage gets an exported
\* copy; the outputs themselves stay as they are
copy_sortings_to_npz ==
    [sortings |-> sortings, run_times |-> run_times, npz |-> Range(iter_computed_names)]

\* _compute_snr (lines 170-181): one value per ground-truth unit of the case
compute_snr(rec, v) ==
    [index |-> "gt_unit_id", snr |-> [u \in Range(gt_unit_ids(rec)) |-> v + u]]

\* snr.reset_index().to_csv(filename, sep='\t', index=False) (line 199)
snr_to_csv(rec, t) ==
    [header |-> <<t.index, "snr">>,
     lines |-> [i \in 1 .. Len(gt_unit_ids(rec)) |->
                   <<gt_unit_ids(rec)[i], t.snr[gt_unit_ids(rec)[i]]>>]]

\* pd.read_csv(filename, sep='\t', index_col=None).set_index('gt_unit_id') (lines 195-196)
snr_read_csv(f) ==
    [index |-> f.header[1],
     snr |-> [u \in {f.lines[i][1] : i \in 1 .. Len(f.lines)} |->
                 f.lines[CHOOSE i \in 1 .. Len(f.lines) : f.lines[i][1] = u][2]]]

units_snr_recompute(folder, names, rec_name, v) ==
    LET r == check_rec_name(names, rec_name)
        snr == compute_snr(r.value, v)
    IN IF r.kind = "error" THEN [ret |-> r, folder |-> folder, computed |-> {}]
       ELSE [ret |-> Value(snr),
             folder |-> [exists |-> TRUE,
                         files |-> [n \in (DOMAIN folder.files) \cup {r.value} |->
                                       IF n = r.value THEN snr_to_csv(r.value, snr)
                                       ELSE folder.files[n]]],
             computed |-> {r.value}]

\* get_units_snr (lines 183-201): result, metrics folder and computations made;
\* v is what the computation gives now
units_snr(folder, names, rec_name, v) ==
    LET r == check_rec_name(names, rec_name)
        rec == r.value
        snr == compute_snr(rec, v)
    IN IF r.kind = "error" THEN [ret |-> r, folder |-> folder, computed |-> {}]
       ELSE IF folder.exists /\ rec \in DOMAIN folder.files
           THEN [ret |-> Value(snr_read_csv(folder.files[rec])), folder |-> folder,
                 computed |-> {}]
       ELSE [ret |-> Value(snr),
             folder |-> [exists |-> TRUE,
                         files |-> [n \in (DOMAIN folder.files) \cup {rec} |->
                                       IF n = rec THEN snr_to_csv(rec, snr)
                                       ELSE folder.files[n]]],
             computed |-> {rec}]

OldFiles == [n \in Range(TableNames) |-> [of |-> n, gen |-> "old", sep |-> "\t", lines |-> <<>>]]

Init ==
    /\ recs \in {{RecOrder[i] : i \in 1 .. n} : n \in 1 .. Len(RecOrder)}
    /\ sortings \in [AllPairs -> {0, 1}]
    /\ \A p \in AllPairs : p[1] \notin recs => sortings[p] = 0
    /\ run_times = sortings
    /\ tables_folder \in {[exists |-> FALSE, files |-> <<>>], [exists |-> TRUE, files |-> OldFiles]}
    /\ metrics_folder = [exists |-> FALSE, files |-> <<>>]
    /\ npz_sortings = {}
    /\ rec_names = ScanResult(<<>>).rec_names
    /\ computed_names = ScanResult(<<>>).computed_names
    /\ sorter_names = ScanResult(<<>>).sorter_names
    /\ is_scanned = TRUE
    /\ comparisons = [none |-> TRUE, items |-> <<>>]
    /\ exhaustive_gt = "None"
    /\ called_gt = "None"
    /\ last = IdleOp
    /\ ret = NoneVal
    /\ engine_calls = NoCalls

\* the assignments of scan_folder
Scanned ==
    /\ rec_names' = ScanResult(computed_names).rec_names
    /\ computed_names' = ScanResult(computed_names).computed_names
    /\ sorter_names' = ScanResult(computed_names).sorter_names
    /\ is_scanned' = TRUE

\* the caller is between two calls
Idle == last = IdleOp

\* scan_folder has read the pairs (line 44) and not yet the sorter names (line 45)
MidScan == last.op = "scan_folder@45"

scan_folder ==
    /\ Idle \/ last.op = "scan_folder"
    /\ Scanned
    /\ last' = [op |-> "scan_folder"]
    /\ ret' = NoneVal
    /\ engine_calls' = NoCalls
    /\ UNCHANGED <<storage, comparisons, exhaustive_gt, history>>

run_sorters ==
    \E sorter_list \in (SUBSET Engines) \ {{}}, mode \in Modes :
    \E fails \in {f \in SUBSET (recs \X sorter_list) : Cardinality(f) <= MaxFails} :
        LET r == run_sorters_call(sorter_list, mode, fails) IN
        /\ Idle
        /\ \A p \in AllPairs : r.sortings[p] <= MaxVersion
        /\ sortings' = r.sortings
        /\ run_times' = r.run_times
        /\ last' = [op |-> "run_sorters", sorter_list |-> sorter_list, mode |-> mode]
        /\ ret' = run_sorters_return(r.report)
        /\ engine_calls' = [invoked |-> r.invoked, failed |-> r.report, snr |-> {}]
        /\ UNCHANGED <<recs, tables_folder, metrics_folder, npz_sortings, memory, history>>

\* _check_rec_name (lines 58-67)
CheckRecName ==
    \E rec_name \in AnyName :
        /\ Idle
        /\ IF ~is_scanned THEN Scanned ELSE UNCHANGED lists
        /\ last' = [op |-> "_check_rec_name", rec_name |-> rec_name]
        /\ ret' = check_rec_name(rec_names', rec_name)
        /\ engine_calls' = NoCalls
        /\ UNCHANGED <<storage, comparisons, exhaustive_gt, history>>

run_comparisons ==
    \E exhaustive \in BOOLEAN :
    \E scoreFailAt \in 1 .. (Len(iter_computed_sorting) + 1) :
        LET todo == iter_computed_sorting
            stop == FirstFailure(rec_names, todo, scoreFailAt)
            done == stop = Len(todo) + 1
        IN
        /\ Idle
        /\ comparisons' = ComparisonsAfter(comparisons, todo, stop - 1, exhaustive)
        /\ exhaustive_gt' = ExhaustiveAfter(exhaustive_gt, done, exhaustive)
        /\ called_gt' = IF exhaustive THEN "True" ELSE "False"
        /\ last' = [op |-> "run_comparisons", exhaustive_gt |-> exhaustive]
        /\ ret' = IF done THEN NoneVal
                  ELSE IF stop = scoreFailAt THEN Raised("scoring") ELSE Raised("lookup")
        /\ engine_calls' = NoCalls
        /\ UNCHANGED <<storage, lists>>

aggregate_run_times ==
    /\ Idle
    /\ last' = [op |-> "aggregate_run_times"]
    /\ ret' = run_times_table
    /\ engine_calls' = NoCalls
    /\ UNCHANGED <<storage, memory, history>>

aggregate_performance_by_units ==
    /\ Idle
    /\ last' = [op |-> "aggregate_performance_by_units"]
    /\ ret' = perf_by_units_table(comparisons, iter_computed_sorting)
    /\ engine_calls' = NoCalls
    /\ UNCHANGED <<storage, memory, history>>

aggregate_count_units ==
    /\ Idle
    /\ last' = [op |-> "aggregate_count_units"]
    /\ ret' = count_units_table(computed_names, rec_names, comparisons, exhaustive_gt,
                                iter_computed_sorting)
    /\ engine_calls' = NoCalls
    /\ UNCHANGED <<storage, memory, history>>

aggregate_dataframes ==
    \E copy_into_folder \in BOOLEAN :
        LET dfs == dataframes(computed_names, rec_names, comparisons, exhaustive_gt,
                              iter_computed_sorting)
        IN
        /\ Idle
        /\ tables_folder' = tables_after(tables_folder, dfs, copy_into_folder)
        /\ last' = [op |-> "aggregate_dataframes", copy_into_folder |-> copy_into_folder,
                    had_files |-> DOMAIN tables_folder.files]
        /\ ret' = dfs
        /\ engine_calls' = NoCalls
        /\ UNCHANGED <<recs, sortings, run_times, metrics_folder, npz_sortings, memory, history>>

get_ground_truth ==
    \E rec_name \in AnyName :
        /\ Idle
        /\ last' = [op |-> "get_ground_truth", rec_name |-> rec_name]
        /\ ret' = load_case(rec_names, rec_name, "ground_truth")
        /\ engine_calls' = NoCalls
        /\ UNCHANGED <<storage, memory, history>>

get_recording ==
    \E rec_name \in AnyName :
        /\ Idle
        /\ last' = [op |-> "get_recording", rec_name |-> rec_name]
        /\ ret' = load_case(rec_names, rec_name, "recording")
        /\ engine_calls' = NoCalls
        /\ UNCHANGED <<storage, memory, history>>

get_sorting ==
    \E sort_name \in SorterArgs, rec_name \in AnyName :
        /\ Idle
        /\ last' = [op |-> "get_sorting", sort_name |-> sort_name, rec_name |-> rec_name]
        /\ ret' = selected_sorting(rec_names, sorter_names, sort_name, rec_name)
        /\ engine_calls' = NoCalls
        /\ UNCHANGED <<storage, memory, history>>

\* copy_sortings (lines 89-91)
copy_sortings ==
    /\ Idle
    /\ sortings' = copy_sortings_to_npz.sortings
    /\ run_times' = copy_sortings_to_npz.run_times
    /\ npz_sortings' = copy_sortings_to_npz.npz
    /\ Scanned
    /\ last' = [op |-> "copy_sortings"]
    /\ ret' = NoneVal
    /\ engine_calls' = NoCalls
    /\ UNCHANGED <<recs, tables_folder, metrics_folder, comparisons, exhaustive_gt, history>>

get_units_snr ==
    \E rec_name \in AnyName, v \in SnrValues :
        LET r == units_snr(metrics_folder, rec_names, rec_name, v) IN
        /\ Idle
        /\ metrics_folder' = r.folder
        /\ last' = [op |-> "get_units_snr", rec_name |-> rec_name, now |-> v]
        /\ ret' = r.ret
        /\ engine_calls' = [invoked |-> {}, failed |-> {}, snr |-> r.computed]
        /\ UNCHANGED <<recs, sortings, run_times, tables_folder, npz_sortings, memory, history>>

\* scan_folder up to line 44, seen from another process
scan_folder_pairs ==
    /\ Idle
    /\ rec_names' = get_rec_names
    /\ computed_names' = ScanResult(computed_names).computed_names
    /\ last' = [op |-> "scan_folder@45"]
    /\ ret' = NoneVal
    /\ engine_calls' = NoCalls
    /\ UNCHANGED <<storage, sorter_names, is_scanned, comparisons, exhaustive_gt, history>>

\* scan_folder from line 45 on
scan_folder_sorters ==
    /\ MidScan
    /\ sorter_names' = ScanResult(computed_names).sorter_names
    /\ is_scanned' = TRUE
    /\ last' = [op |-> "scan_folder"]
    /\ UNCHANGED <<storage, rec_names, computed_names, comparisons, exhaustive_gt, history,
                   ret, engine_calls>>

\* another process removes the output of one pair from the study folder
external_remove ==
    \E p \in AllPairs :
        /\ Idle \/ MidScan
        /\ sortings[p] # 0
        /\ sortings' = [sortings EXCEPT ![p] = 0]
        /\ run_times' = [run_times EXCEPT ![p] = 0]
        /\ UNCHANGED <<last, ret, engine_calls>>
        /\ UNCHANGED <<recs, tables_folder, metrics_folder, npz_sortings, memory, history>>

\* the caller takes the result and goes on to its next call
Return ==
    /\ ~Idle /\ ~MidScan
    /\ last' = IdleOp
    /\ ret' = NoneVal
    /\ engine_calls' = NoCalls
    /\ UNCHANGED <<storage, memory, history>>

Next ==
    \/ Return
    \/ scan_folder
    \/ run_sorters
    \/ CheckRecName
    \/ run_comparisons
    \/ aggregate_run_times
    \/ aggregate_performance_by_units
    \/ aggregate_count_units
    \/ aggregate_dataframes

\* dispatch, scans and the getters
NextQuery ==
    \/ Return
    \/ scan_folder
    \/ run_sorters
    \/ get_ground_truth
    \/ get_recording
    \/ get_sorting
    \/ copy_sortings

\* the operations that change the study, with another writer on the folder
NextEnv ==
    \/ Return
    \/ scan_folder
    \/ run_sorters
    \/ run_comparisons
    \/ external_remove

\* a scan whose two reads of storage another process may separate
NextScan ==
    \/ Return
    \/ run_sorters
    \/ scan_folder_pairs
    \/ scan_folder_sorters
    \/ external_remove

\* the metrics cache and the operations it rests on
NextMetrics ==
    \/ Return
    \/ CheckRecName
    \/ scan_folder
    \/ get_units_snr

\* every operation of the study
NextAll == Next \/ NextQuery \/ get_units_snr

Spec == Init /\ [][Next]_vars

\* a study folder without tables of an earlier process
InitEnv == Init /\ ~tables_folder.exists

SpecEnv == InitEnv /\ [][NextEnv]_vars

SpecScan == InitEnv /\ [][NextScan]_vars

SpecQuery == InitEnv /\ [][NextQuery]_vars

SpecMetrics == Init /\ [][NextMetrics]_vars

\* a study of one recording
InitAll == Init /\ recs = {RecOrder[1]}

SpecAll == InitAll /\ [][NextAll]_vars

\* ------------------------------------------------------------------ claims
Stored == {p \in AllPairs : sortings[p] # 0}
Called(op) == last.op = op
Calls(op) == Idle /\ last'.op = op
RowKeys(rows) == {rows[i].key : i \in 1 .. Len(rows)}

\* the count_units tables the last call returned (by itself or among the dataframes)
CountTables ==
    IF Called("aggregate_count_units") /\ ret.kind = "value" THEN {ret.value}
    ELSE IF Called("aggregate_dataframes") /\ ret.kind = "value" THEN {ret.value.count_units}
    ELSE {}

\* C1: _check_rec_name(None) returns the only recording of a one-recording
\* study, raises the usage error in a study of two or more recordings, and
\* leaves rec_names, computed_names and sorter_names as they were.
C1_ResolveWithoutName ==
    [][(Calls("_check_rec_name") /\ last'.rec_name = NoName) =>
        /\ Cardinality(recs) = 1 => ret'.kind = "value" /\ ret'.value \in recs
        /\ Cardinality(recs) >= 2 => ret' = Raised("usage")
        /\ UNCHANGED <<rec_names, computed_names, sorter_names>>]_vars

C1_Witness ==
    /\ Called("_check_rec_name")
    /\ last.rec_name = NoName
    /\ Cardinality(recs) >= 2
    /\ ret = Raised("usage")

\* C2: with an explicit name, _check_rec_name returns that very name when it is
\* a known recording and raises the lookup error when it is not, whether the
\* study has one recording or several.
C2_ExplicitName ==
    (Called("_check_rec_name") /\ last.rec_name # NoName) =>
        IF last.rec_name \in recs THEN ret = Value(last.rec_name)
        ELSE ret = Raised("lookup")

C4_OverwriteReruns ==
    [][(Calls("run_sorters") /\ last'.mode = "overwrite") =>
        \A p \in recs \X last'.sorter_list :
            /\ p \in engine_calls'.invoked
            /\ p \notin engine_calls'.failed =>
                  sortings'[p] # sortings[p] /\ run_times'[p] # run_times[p]]_vars

\* C5: when an engine fails on a pair, the other pairs without output are still
\* attempted, the failed pair has no output, and run_sorters returns a result
\* naming the failed pairs.
C5_FailureReported ==
    (Called("run_sorters") /\ engine_calls.failed # {}) =>
        /\ \A p \in engine_calls.invoked \ engine_calls.failed : sortings[p] # 0
        /\ \A p \in engine_calls.failed : sortings[p] = 0
        /\ ret.kind = "value"
        /\ ret.value = engine_calls.failed

\* C6: scan_folder called again on the unchanged folder leaves rec_names,
\* computed_names and sorter_names identical, and computed_names after a scan
\* holds no pair twice.
C6_ScanIdempotent ==
    [][last'.op = "scan_folder" =>
        /\ NoDuplicates(computed_names')
        /\ Called("scan_folder") => UNCHANGED <<rec_names, computed_names, sorter_names>>]_vars

C6_Witness ==
    /\ Called("scan_folder")
    /\ Len(computed_names) >= 3
    /\ Len(sorter_names) = 2

\* C7: after a completed run_comparisons the keys of self.comparisons are
\* exactly the pairs with output on storage and every entry is of this call.
C7_ComparisonsReplaced ==
    (Called("run_comparisons") /\ ret = NoneVal) =>
        /\ ~comparisons.none
        /\ DOMAIN comparisons.items = Stored
        /\ \A p \in DOMAIN comparisons.items : comparisons.items[p].fresh

C7_Witness ==
    /\ Called("run_comparisons")
    /\ ret = NoneVal
    /\ Stored # {}
    /\ \E p \in Range(computed_names) : p \notin Stored

\* C8 (as claimed): each of the four aggregation methods raises
\* 'run_comparisons first' while run_comparisons has never been called.
C8_AllAggregationsFail ==
    (/\ called_gt = "None"
     /\ last.op \in {"aggregate_run_times", "aggregate_performance_by_units",
                     "aggregate_count_units", "aggregate_dataframes"}) =>
        ret = Raised("run_comparisons first")

\* C8 (amended): aggregate_performance_by_units, aggregate_count_units and
\* aggregate_dataframes raise 'run_comparisons first' while run_comparisons has
\* never been called; aggregate_run_times has no such check and returns its table.
C8_CheckedAggregationsFail ==
    called_gt = "None" =>
        /\ last.op \in {"aggregate_performance_by_units", "aggregate_count_units",
                        "aggregate_dataframes"} => ret = Raised("run_comparisons first")
        /\ Called("aggregate_run_times") => ret.kind = "value"

C8_Witness ==
    /\ called_gt = "None"
    /\ Called("aggregate_dataframes")
    /\ Stored # {}
    /\ ret = Raised("run_comparisons first")

\* C9: a count_units table returned by aggregate_count_units has one row per
\* pair with output on storage, no pair twice, no other row, every cell filled.
C9_OneRowPerStoredPair ==
    \A t \in CountTables :
        /\ NoDuplicates([i \in 1 .. Len(t.rows) |-> t.rows[i].key])
        /\ RowKeys(t.rows) = Stored
        /\ \A i \in 1 .. Len(t.rows) : \A c \in Range(t.columns) :
               t.rows[i].cells[c] # "None"

C9_Witness ==
    /\ Called("aggregate_count_units")
    /\ ret.kind = "value"
    /\ Len(ret.value.rows) >= 2
    /\ Range(computed_names) # Stored

\* C10: a returned count_units table has the columns num_false_positive and
\* num_bad, filled in every row, exactly when the most recent run_comparisons
\* was called with exhaustive_gt = True.
C10_ExhaustiveColumns ==
    \A t \in CountTables :
        /\ (Range(ExhaustiveColumns) \subseteq Range(t.columns)) <=> (called_gt = "True")
        /\ called_gt # "True" => Range(ExhaustiveColumns) \cap Range(t.columns) = {}
        /\ called_gt = "True" =>
               \A i \in 1 .. Len(t.rows) : \A c \in Range(ExhaustiveColumns) :
                   t.rows[i].cells[c] # "None"

C10_Witness ==
    /\ Called("aggregate_count_units")
    /\ ret.kind = "value"
    /\ called_gt = "True"
    /\ Len(ret.value.rows) >= 1
    /\ "num_bad" \in Range(ret.value.columns)

\* the perf_by_units tables the last call returned (by itself or among the dataframes)
PerfTables ==
    IF Called("aggregate_performance_by_units") /\ ret.kind = "value" THEN {ret.value}
    ELSE IF Called("aggregate_dataframes") /\ ret.kind = "value" THEN {ret.value.perf_by_units}
    ELSE {}

RECURSIVE SumUnits(_)
SumUnits(S) ==
    IF S = {} THEN 0
    ELSE LET p == CHOOSE x \in S : TRUE
         IN Len(gt_unit_ids(p[1])) + SumUnits(S \ {p})

\* C11: a returned perf_by_units table has as many rows as the stored pairs have
\* ground-truth units in all, one row per (rec_name, sorter_name, gt_unit_id) of
\* a stored pair and a unit of its recording.
C11_RowPerUnit ==
    \A t \in PerfTables :
        /\ Len(t) = SumUnits(Stored)
        /\ NoDuplicates([i \in 1 .. Len(t) |-> t[i].key])
        /\ \A i \in 1 .. Len(t) :
               /\ <<t[i].key[1], t[i].key[2]>> \in Stored
               /\ t[i].key[3] \in Range(gt_unit_ids(t[i].key[1]))

C11_Witness ==
    /\ Called("aggregate_performance_by_units")
    /\ ret.kind = "value"
    /\ Cardinality(Stored) >= 3
    /\ Len(ret.value) >= 4
\* the case a call of get_units_snr resolves to, in the state before the call
SnrCase == check_rec_name(rec_names, last'.rec_name).value

\* C12: the first get_units_snr of a case computes the table and persists it in a
\* form that reads back as the returned unit-indexed values; a later call for
\* the case returns what the file holds, computes nothing and leaves the file
\* as it is, whatever the computation would give now.
C12_MetricsCache ==
    [][(Calls("get_units_snr") /\ ret'.kind = "value") =>
          IF SnrCase \in DOMAIN metrics_folder.files
          THEN /\ ret'.value = snr_read_csv(metrics_folder.files[SnrCase])
               /\ engine_calls'.snr = {}
               /\ metrics_folder' = metrics_folder
          ELSE /\ engine_calls'.snr = {SnrCase}
               /\ ret'.value.snr = [u \in Range(gt_unit_ids(SnrCase)) |-> last'.now + u]
               /\ SnrCase \in DOMAIN metrics_folder'.files
               /\ snr_read_csv(metrics_folder'.files[SnrCase]) = ret'.value
               /\ \A n \in DOMAIN metrics_folder.files :
                      metrics_folder'.files[n] = metrics_folder.files[n]]_vars

\* a later call, made when the computation would give 2 + u, returns the 1 + u
\* of the first call without computing
C12_Witness ==
    /\ Called("get_units_snr")
    /\ ret.kind = "value"
    /\ last.now = 2
    /\ engine_calls.snr = {}
    /\ ret.value.snr = [u \in Range(gt_unit_ids("recB")) |-> 1 + u]
    /\ snr_read_csv(metrics_folder.files["recB"]) = ret.value
\* C13: a call of aggregate_dataframes that builds its three tables and is asked
\* to persist them leaves a tables folder holding exactly the three files, each
\* the text of the table this call returns under that name, whether or not the
\* folder or earlier files were there; asked not to persist, it leaves storage
\* as it was.
C13_TablesPersisted ==
    [][(Calls("aggregate_dataframes") /\ ret'.kind = "value") =>
          IF last'.copy_into_folder
          THEN /\ tables_folder'.exists
               /\ DOMAIN tables_folder'.files = Range(TableNames)
               /\ \A n \in Range(TableNames) :
                      tables_folder'.files[n] = to_csv(n, ret'.value[n])
               /\ <<recs, sortings, run_times, metrics_folder, npz_sortings>>'
                      = <<recs, sortings, run_times, metrics_folder, npz_sortings>>
          ELSE storage' = storage]_vars

\* earlier files of the three names were there and hold this call's tables now
C13_Witness ==
    /\ Called("aggregate_dataframes")
    /\ ret.kind = "value"
    /\ last.copy_into_folder
    /\ last.had_files = Range(TableNames)
    /\ \A n \in Range(TableNames) :
           tables_folder.files[n] = to_csv(n, ret.value[n])
    /\ Len(ret.value.perf_by_units) >= 2
\* C14: a call of get_sorting that names an engine the scanned study does not
\* know ends in a lookup error.
C14_UnknownEngineRaises ==
    (Called("get_sorting") /\ last.sort_name \notin Range(sorter_names)) =>
        ret.kind = "error"
\* the engine names that occur in the list of computed pairs
EnginesOfComputed == {computed_names[i][2] : i \in 1 .. Len(computed_names)}

\* C15: outside a scan, the known engine names are the engine names of the
\* computed pairs, each once and sorted, also when another process changes
\* storage around or during a scan.
C15_SorterNamesDerived ==
    ~MidScan =>
        /\ Range(sorter_names) = EnginesOfComputed
        /\ NoDuplicates(sorter_names)
\* C16: whenever the comparison map holds entries, all of them were scored with
\* the flag recorded in exhaustive_gt, also after a call with the other flag and
\* after a call in which scoring failed part-way.
C16_OneFlag ==
    \A p \in DOMAIN comparisons.items :
        exhaustive_gt = (IF comparisons.items[p].flag THEN "True" ELSE "False")
\* the operations that are allowed to write under the study folder
Writers == {"run_sorters", "get_units_snr", "copy_sortings", "aggregate_dataframes"}

\* C17 as stated: a step that changes storage is a step of run_sorters or of
\* get_units_snr.
C17_OnlyDispatchAndMetricsWrite ==
    [][storage' # storage => last'.op \in {"run_sorters", "get_units_snr"}]_vars

\* C17: a step that changes storage is a step of run_sorters, get_units_snr,
\* copy_sortings or of aggregate_dataframes asked to persist and returning its
\* tables, and that last one changes the tables folder only; scan_folder, case
\* resolution, the getters, run_comparisons and the other aggregations leave
\* storage as it was.
C17_WritersOnly ==
    [][storage' # storage =>
          /\ last'.op \in Writers
          /\ last'.op = "aggregate_dataframes" =>
                 /\ last'.copy_into_folder
                 /\ ret'.kind = "value"
                 /\ <<recs, sortings, run_times, metrics_folder, npz_sortings>>'
                        = <<recs, sortings, run_times, metrics_folder, npz_sortings>>]_vars

\* the tables, the metrics and an exported copy have all been written, and a
\* reading operation has just been made
C17_Witness ==
    /\ last.op \in {"scan_folder", "get_sorting", "run_comparisons",
                    "aggregate_count_units"}
    /\ tables_folder.exists /\ DOMAIN tables_folder.files # {}
    /\ \A n \in DOMAIN tables_folder.files : tables_folder.files[n].gen = "new"
    /\ DOMAIN metrics_folder.files # {}
    /\ npz_sortings # {}
\* C18: the lists of the object name exactly the outputs on storage, and a call
\* of get_sorting that resolves its case returns an output exactly when storage
\* holds one for the pair, also after a run_sorters that was not followed by a
\* scan.
C18_ViewFollowsStorage ==
    /\ Range(computed_names) = Stored
    /\ Range(sorter_names) = {p[2] : p \in Stored}
    /\ (Called("get_sorting") /\ ret.kind # "error") =>
           (ret.kind = "value" <=>
               <<check_rec_name(rec_names, last.rec_name).value, last.sort_name>> \in Stored)
\* C19: once a run_comparisons has completed, every output on storage has an
\* entry in the comparison map, and aggregate_performance_by_units and
\* aggregate_count_units do not fail on a missing key, whatever was called since.
C19_NoMissingKey ==
    exhaustive_gt # "None" =>
        /\ Stored \subseteq DOMAIN comparisons.items
        /\ (Called("aggregate_performance_by_units") \/ Called("aggregate_count_units")) =>
               ret # Raised("KeyError")
\* C20: a call of aggregate_dataframes that fails leaves storage as it was (no
\* table file created or changed, no tables folder created), and the tables
\* folder changes only in a call that has built all three tables.
C20_AllOrNothing ==
    [][/\ (Calls("aggregate_dataframes") /\ ret'.kind = "error") => storage' = storage
       /\ tables_folder' # tables_folder =>
              /\ Calls("aggregate_dataframes")
              /\ ret'.kind = "value"
              /\ DOMAIN ret'.value = Range(TableNames)]_vars

\* persistence was asked for, the comparisons had been run, a table could not
\* be built, and the tables folder is still absent
C20_Witness ==
    /\ Called("aggregate_dataframes")
    /\ last.copy_into_folder
    /\ ret = Raised("KeyError")
    /\ ~comparisons.none
    /\ ~tables_folder.exists
====
